---- MODULE Spec2Model ----
(***************************************************************************)
(* A model of streamlit_app.py: the TEI/EpiDoc viewer.                     *)
(*                                                                         *)
(* A Python string is a sequence of code points, each written as a one     *)
(* character TLA+ string (a code point outside letters, digits and common  *)
(* punctuation is written "U+XXXX").                                       *)
(* An ElementTree element is a record                                      *)
(*   [ns, tag, attrib, text, kids, tail]                                   *)
(* ns is "tei" for the TEI namespace and "" for no namespace, tag the      *)
(* local name, attrib a function from attribute names to strings, text     *)
(* and tail are <<>> where ElementTree gives None (a parsed tree never     *)
(* holds an empty, non-None text), kids the children in document order.    *)
(***************************************************************************)
EXTENDS Integers, Sequences, FiniteSets, TLC

VARIABLES
    \* ---- one call of format_leiden_text, followed through its loop ----
    arg,            \* the element the call was made on
    elem,           \* the element of the running frame (arg, or its ab child)
    text,           \* the local variable text
    ci,             \* how many children the for loop has processed
    lpc,            \* "idle" | "enter" | "loop" | "done" | the exception raised
    \* ---- one run of the script over an uploaded batch ----
    uploaded_files, \* the batch, in upload order
    pc,             \* "idle" | "start" | "upload" | "viz" | "query" | "analytics" | "done" | "aborted"
    idx,            \* files the running loop has processed
    parsed_files,   \* line 448
    unique_types, unique_materials, unique_categories,   \* lines 445-447
    all_data,       \* line 444
    diagnostics,    \* st.warning / st.error messages, in order
    shown,          \* what the display loop produced, one record per document
    monument_data,  \* the record built at lines 761-782 (the last one built)
    search,         \* what the user chose in the query tab, <<>> before
    results,        \* line 821
    analytics,      \* what the analytics tab shows: "" | "charts" | "no data"
    exception       \* the uncaught exception that ended the run, or ""

lvars == <<arg, elem, text, ci, lpc>>
bvars == <<uploaded_files, pc, idx, parsed_files, unique_types, unique_materials,
           unique_categories, all_data, diagnostics, shown, monument_data, search,
           results, analytics, exception>>
vars == <<arg, elem, text, ci, lpc, uploaded_files, pc, idx, parsed_files,
          unique_types, unique_materials, unique_categories, all_data,
          diagnostics, shown, monument_data, search, results, analytics, exception>>

---------------------------------------------------------------------------
\* Bounds of the model.

\* Longest batch of uploaded files.
MaxFiles == 3

\* Most children of the element format_leiden_text is called on.
MaxKids == 2

\* Largest quantity attribute written as a number.
MaxQty == 12

\* Most nodes of the header left out of one document.
MaxOmitted == 1

---------------------------------------------------------------------------
\* Python strings.

Whitespace == {" ", "\n", "\t", "\r"}

RECURSIVE lstrip(_)
lstrip(s) == IF s # <<>> /\ Head(s) \in Whitespace THEN lstrip(Tail(s)) ELSE s

RECURSIVE rstrip(_)
rstrip(s) ==
    IF s # <<>> /\ s[Len(s)] \in Whitespace THEN rstrip(SubSeq(s, 1, Len(s) - 1)) ELSE s

\* str.strip()
strip(s) == rstrip(lstrip(s))

UpperCase == <<"A", "B", "C", "D", "E", "F", "G", "H", "I", "J", "K", "L", "M",
               "N", "O", "P", "Q", "R", "S", "T", "U", "V", "W", "X", "Y", "Z">>
LowerCase == <<"a", "b", "c", "d", "e", "f", "g", "h", "i", "j", "k", "l", "m",
               "n", "o", "p", "q", "r", "s", "t", "u", "v", "w", "x", "y", "z">>

lowerChar(c) ==
    IF \E k \in 1..Len(UpperCase) : UpperCase[k] = c
    THEN LowerCase[CHOOSE k \in 1..Len(UpperCase) : UpperCase[k] = c]
    ELSE c

\* str.lower()
lower(s) == [k \in 1..Len(s) |-> lowerChar(s[k])]

\* s * n for a string s: the empty string when n <= 0
RECURSIVE repeat(_, _)
repeat(s, n) == IF n <= 0 THEN <<>> ELSE s \o repeat(s, n - 1)

Digits == <<"0", "1", "2", "3", "4", "5", "6", "7", "8", "9">>
IsDigit(c) == \E k \in 1..10 : Digits[k] = c
DigitVal(c) == (CHOOSE k \in 1..10 : Digits[k] = c) - 1

RECURSIVE digitsValue(_, _)
digitsValue(s, acc) ==
    IF s = <<>> THEN acc ELSE digitsValue(Tail(s), 10 * acc + DigitVal(Head(s)))

\* int(s) for a string s: surrounding whitespace is dropped, one sign is allowed,
\* the rest must be one or more decimal digits; anything else raises ValueError.
int(s) ==
    LET t == strip(s)
        signed == t # <<>> /\ Head(t) \in {"+", "-"}
        d == IF signed THEN Tail(t) ELSE t
    IN  IF d # <<>> /\ \A k \in 1..Len(d) : IsDigit(d[k])
        THEN [exc |-> "", val |-> IF signed /\ Head(t) = "-"
                                  THEN 0 - digitsValue(d, 0) ELSE digitsValue(d, 0)]
        ELSE [exc |-> "ValueError", val |-> 0]

\* f'{v}' of a text that may be None
NoneStr == <<"N", "o", "n", "e">>
fstr(t) == IF t = <<>> THEN NoneStr ELSE t

\* s occurs in t as a contiguous substring (Python: s in t)
Contains(t, s) ==
    \E k \in 0..(Len(t) - Len(s)) : SubSeq(t, k + 1, k + Len(s)) = s

\* ' '.join(value.replace('\n', ' ').replace('\r', '').replace('\t', ' ').split())
RECURSIVE splitJoin(_, _)
splitJoin(s, pending) ==
    IF s = <<>> THEN <<>>
    ELSE IF Head(s) = "\r" THEN splitJoin(Tail(s), pending)
    ELSE IF Head(s) \in {" ", "\n", "\t"} THEN splitJoin(Tail(s), TRUE)
    ELSE (IF pending THEN <<" ">> ELSE <<>>) \o <<Head(s)>> \o splitJoin(Tail(s), FALSE)

clean(s) == splitJoin(strip(s), FALSE)

---------------------------------------------------------------------------
\* ElementTree elements.

NoAttrib == [k \in {} |-> <<>>]

\* The attribute mapping holding the (name, value) pairs of S.
Attrib(S) == [k \in {p[1] : p \in S} |-> (CHOOSE p \in S : p[1] = k)[2]]

Element(ns, tag, attrib, txt, kids, tail) ==
    [ns |-> ns, tag |-> tag, attrib |-> attrib, text |-> txt, kids |-> kids, tail |-> tail]

\* A TEI element with no attributes and no tail.
E(tag, txt, kids) == Element("tei", tag, NoAttrib, txt, kids, <<>>)

\* Python's None where an element is expected.
None == Element("", "#None", NoAttrib, <<>>, <<>>, <<>>)

\* attrib.get(name): HasAttr says whether it is not None
HasAttr(e, name) == name \in DOMAIN e.attrib

\* attrib.get(name, default)
get(e, name, default) == IF HasAttr(e, name) THEN e.attrib[name] ELSE default

\* The proper descendants of e in document order.
RECURSIVE descendants(_)
RECURSIVE descendantsOf(_)
descendantsOf(kids) ==
    IF kids = <<>> THEN <<>>
    ELSE <<Head(kids)>> \o descendants(Head(kids)) \o descendantsOf(Tail(kids))
descendants(e) == descendantsOf(e.kids)

\* An ElementPath is a sequence of steps.  "tei:<tag>" is the step Child(tag),
\* ".//tei:<tag>" and "//tei:<tag>" the step Deep(tag); a step followed by
\* "[@<name>='<value>']" holds the pair <<name, value>> in preds.
Child(tag) == [deep |-> FALSE, tag |-> tag, preds |-> <<>>]
Deep(tag) == [deep |-> TRUE, tag |-> tag, preds |-> <<>>]
With(step, name, value) == [step EXCEPT !.preds = @ \o <<<<name, value>>>>]

\* attrib.get(name) == value
AttrIs(e, name, value) == HasAttr(e, name) /\ e.attrib[name] = value

\* The element matches the step: the prefix tei is bound to the TEI namespace.
Matches(k, step) ==
    /\ k.ns = "tei"
    /\ k.tag = step.tag
    /\ \A j \in 1..Len(step.preds) : AttrIs(k, step.preds[j][1], step.preds[j][2])

RECURSIVE flatten(_)
flatten(ss) == IF ss = <<>> THEN <<>> ELSE Head(ss) \o flatten(Tail(ss))

\* e.findall(path, NS)
RECURSIVE findallPath(_, _)
findallPath(e, path) ==
    IF path = <<>> THEN <<e>>
    ELSE LET T(k) == Matches(k, Head(path))
             cands == SelectSeq(IF Head(path).deep THEN descendants(e) ELSE e.kids, T)
         IN  flatten([j \in 1..Len(cands) |-> findallPath(cands[j], Tail(path))])

\* e.find(path, NS)
findPath(e, path) == LET r == findallPath(e, path) IN IF r = <<>> THEN None ELSE Head(r)

\* e.find("tei:<tag>", NS) and e.findall("tei:<tag>", NS)
find(e, tag) == findPath(e, <<Child(tag)>>)
findall(e, tag) == findallPath(e, <<Child(tag)>>)

\* e.find(".//tei:<tag>", NS) and e.findall(".//tei:<tag>", NS)
findDeep(e, tag) == findPath(e, <<Deep(tag)>>)
findallDeep(e, tag) == findallPath(e, <<Deep(tag)>>)

\* ''.join(e.itertext())
RECURSIVE itertext(_)
RECURSIVE itertextOf(_)
itertextOf(kids) ==
    IF kids = <<>> THEN <<>>
    ELSE itertext(Head(kids)) \o Head(kids).tail \o itertextOf(Tail(kids))
itertext(e) == e.text \o itertextOf(e.kids)

---------------------------------------------------------------------------
\* format_leiden_text (lines 163-344).  A call returns [exc, text]: exc is ""
\* when the call returns text, and the name of the exception it raised otherwise.

Ok(t) == [exc |-> "", text |-> t]
Raise(x) == [exc |-> x, text |-> <<>>]

\* child.tag.split('}')[-1]
localName(e) == e.tag

\* render_lb without the line number
render_lb_bare(child) == <<"\n">>

\* lines 182-184
render_lb(child) ==
    LET n == get(child, "n", <<>>)
    IN  IF n # <<>> THEN <<"\n">> \o n \o <<".", " ">> ELSE <<"\n">>

\* lines 193-195: every character followed by U+0323
RECURSIVE dotted(_)
dotted(s) == IF s = <<>> THEN <<>> ELSE <<Head(s), "U+0323">> \o dotted(Tail(s))

\* render_unclear over all the text nested in the child
render_unclear_nested(child) == dotted(itertext(child))

\* lines 192-195
render_unclear(child) == dotted(child.text)

\* lines 198-199
render_orig(child) == <<"=">> \o child.text \o <<"=">>

\* render_supplied with the "?" of a low cert in the undefined form as well
render_supplied_cert_any(child) ==
    LET sup == child.text
        q == IF AttrIs(child, "cert", <<"l", "o", "w">>) THEN <<"?">> ELSE <<>>
    IN  IF AttrIs(child, "reason", <<"l", "o", "s", "t">>)
        THEN <<"[">> \o sup \o q \o <<"]">>
        ELSE IF AttrIs(child, "reason", <<"u", "n", "d", "e", "f", "i", "n", "e", "d">>)
        THEN <<"_", "[">> \o sup \o q \o <<"]", "_">>
        ELSE IF AttrIs(child, "reason", <<"o", "m", "i", "t", "t", "e", "d">>)
        THEN <<"<">> \o sup \o <<">">>
        ELSE IF AttrIs(child, "reason", <<"s", "u", "b", "a", "u", "d", "i", "b", "l", "e">>)
        THEN <<"(">> \o sup \o <<")">>
        ELSE sup

\* lines 202-215
render_supplied(child) ==
    LET sup == child.text
    IN  IF AttrIs(child, "reason", <<"l", "o", "s", "t">>)
        THEN <<"[">> \o sup
             \o (IF AttrIs(child, "cert", <<"l", "o", "w">>) THEN <<"?">> ELSE <<>>)
             \o <<"]">>
        ELSE IF AttrIs(child, "reason", <<"u", "n", "d", "e", "f", "i", "n", "e", "d">>)
        THEN <<"_", "[">> \o sup \o <<"]", "_">>
        ELSE IF AttrIs(child, "reason", <<"o", "m", "i", "t", "t", "e", "d">>)
        THEN <<"<">> \o sup \o <<">">>
        ELSE IF AttrIs(child, "reason", <<"s", "u", "b", "a", "u", "d", "i", "b", "l", "e">>)
        THEN <<"(">> \o sup \o <<")">>
        ELSE sup

Unknown == <<"u", "n", "k", "n", "o", "w", "n">>
Character == <<"c", "h", "a", "r", "a", "c", "t", "e", "r">>
Line == <<"l", "i", "n", "e">>
LinesOpen == <<"(", "L", "i", "n", "e", "s", ":", " ">>
LinesClose == <<" ", "n", "o", "n", " ", "t", "r", "a", "n", "s", "c", "r", "i", "b", "e", "d", ")">>

\* gap_character with the tests for precision and extent in the other order
gap_character_precision_first(child) ==
    LET qty == get(child, "quantity", <<>>)
    IN  IF AttrIs(child, "precision", <<"l", "o", "w">>)
        THEN Ok(<<"[", ".">> \o qty \o <<"]">>)
        ELSE IF AttrIs(child, "extent", Unknown) THEN Ok(<<"[", ".", "?", "]">>)
        ELSE LET n == IF qty = <<>> THEN [exc |-> "", val |-> 0] ELSE int(qty)
             IN  IF n.exc # "" THEN Raise(n.exc)
                 ELSE Ok(<<"[">> \o repeat(<<".">>, n.val) \o <<"]">>)

\* lines 228-234: the gap is counted in characters
gap_character(child) ==
    LET qty == get(child, "quantity", <<>>)
    IN  IF AttrIs(child, "extent", Unknown) THEN Ok(<<"[", ".", "?", "]">>)
        ELSE IF AttrIs(child, "precision", <<"l", "o", "w">>)
        THEN Ok(<<"[", ".">> \o qty \o <<"]">>)
        ELSE LET n == IF qty = <<>> THEN [exc |-> "", val |-> 0] ELSE int(qty)
             IN  IF n.exc # "" THEN Raise(n.exc)
                 ELSE Ok(<<"[">> \o repeat(<<".">>, n.val) \o <<"]">>)

\* lines 235-239: the gap is counted in lines
gap_line(child) ==
    IF AttrIs(child, "extent", Unknown)
    THEN LinesOpen \o <<"?">> \o LinesClose
    ELSE LinesOpen \o get(child, "quantity", <<>>) \o LinesClose

\* lines 218-239
render_gap(child) ==
    IF AttrIs(child, "reason", <<"e", "l", "l", "i", "p", "s", "i", "s">>)
    THEN Ok(<<".", ".", ".">>)
    ELSE IF AttrIs(child, "unit", Character) THEN gap_character(child)
    ELSE IF AttrIs(child, "unit", Line) THEN Ok(gap_line(child))
    ELSE Ok(<<>>)

\* lines 242-247
render_del(child) ==
    LET inner == itertext(child)
    IN  IF AttrIs(child, "rend", <<"e", "r", "a", "s", "u", "r", "e">>)
        THEN <<"U+301A">> \o inner \o <<"U+301B">>
        ELSE inner

\* lines 250-260
render_add(child) ==
    LET inner == child.text
    IN  IF AttrIs(child, "place", <<"o", "v", "e", "r", "s", "t", "r", "i", "k", "e">>)
        THEN <<"U+300A">> \o inner \o <<"U+300B">>
        ELSE IF AttrIs(child, "place", <<"a", "b", "o", "v", "e">>)
        THEN <<"U+0060">> \o inner \o <<"U+00B4">>
        ELSE IF AttrIs(child, "place", <<"b", "e", "l", "o", "w">>)
        THEN <<"/">> \o inner \o <<"\\">>
        ELSE inner

\* lines 263-273
render_choice(child) ==
    LET corr == find(child, "corr")
        sic == find(child, "sic")
        reg == find(child, "reg")
        orig == find(child, "orig")
    IN  IF corr # None /\ sic # None
        THEN <<"<">> \o fstr(corr.text) \o <<"|", "c", "o", "r", "r", "|">>
             \o fstr(sic.text) \o <<">">>
        ELSE IF reg # None /\ orig # None
        THEN <<"<">> \o fstr(orig.text) \o <<"|", "r", "e", "g", "|">>
             \o fstr(reg.text) \o <<">">>
        ELSE itertext(child)

\* lines 276-286
render_hi(child) ==
    LET inner == child.text
    IN  IF AttrIs(child, "rend", <<"a", "p", "e", "x">>)
        THEN inner \o <<"(", "U+0384", ")">>
        ELSE IF AttrIs(child, "rend", <<"s", "u", "p", "r", "a", "l", "i", "n", "e">>)
        THEN inner \o <<"U+00AF">>
        ELSE IF AttrIs(child, "rend", <<"l", "i", "g", "a", "t", "u", "r", "e">>)
        THEN inner \o <<"U+0361">>
        ELSE inner

\* render_expan giving the nested text when the abbr and ex pair is not there
render_expan_verbatim(child) ==
    LET abbr == find(child, "abbr")
        ex == find(child, "ex")
    IN  IF abbr # None /\ ex # None
        THEN abbr.text \o <<"(">> \o ex.text
             \o (IF AttrIs(ex, "cert", <<"l", "o", "w">>) THEN <<"?">> ELSE <<>>)
             \o <<")">>
        ELSE itertext(child)

\* lines 289-294
render_expan(child) ==
    LET abbr == find(child, "abbr")
        ex == find(child, "ex")
    IN  IF abbr # None /\ ex # None
        THEN abbr.text \o <<"(">> \o ex.text
             \o (IF AttrIs(ex, "cert", <<"l", "o", "w">>) THEN <<"?">> ELSE <<>>)
             \o <<")">>
        ELSE <<>>

\* lines 297-298
render_interp(child) == <<" ", "U+00B7", " ">>

\* lines 301-302
render_abbr(child) == child.text

\* lines 305-308
render_g(child) ==
    LET type_ == get(child, "type", <<>>)
    IN  IF type_ # <<>> THEN <<"*">> \o type_ \o <<"*">> ELSE <<>>

\* lines 311-312
render_surplus(child) == <<"{">> \o child.text \o <<"}">>

\* lines 315-320
render_note(child) ==
    LET note == child.text
    IN  IF note \in {<<"!">>, <<"s", "i", "c">>, <<"e", ".", "g", ".">>}
        THEN <<"/", "*">> \o note \o <<"*", "/">>
        ELSE <<"(">> \o note \o <<")">>

\* lines 323-330
render_space(child) ==
    LET qty == IF HasAttr(child, "quantity") THEN child.attrib["quantity"] ELSE NoneStr
        vac == <<"v", "a", "c", ".">>
    IN  IF AttrIs(child, "unit", Character)
        THEN (IF AttrIs(child, "extent", Unknown) THEN vac \o <<"?">> ELSE vac \o qty)
        ELSE IF AttrIs(child, "unit", Line)
        THEN (IF AttrIs(child, "extent", Unknown)
              THEN vac \o <<"?", "l", "i", "n">> ELSE vac \o qty \o <<"l", "i", "n">>)
        ELSE <<>>

Textpart == <<"t", "e", "x", "t", "p", "a", "r", "t">>

RECURSIVE format_leiden_text(_)

\* lines 187-190
render_textpart(child) ==
    LET n == get(child, "n", <<>>)
        inner == format_leiden_text(child)
    IN  IF inner.exc # "" THEN inner
        ELSE Ok(<<"<", "D", "=", ".">> \o n \o <<" ">> \o inner.text \o <<" ", "=", "D", ">">>)

\* lines 179-338: what one child adds to text, before its tail
render_child(child) ==
    LET tag == localName(child)
    IN  IF tag = "lb" THEN Ok(render_lb(child))
        ELSE IF tag = "div" /\ AttrIs(child, "type", Textpart) THEN render_textpart(child)
        ELSE IF tag = "unclear" THEN Ok(render_unclear(child))
        ELSE IF tag = "orig" THEN Ok(render_orig(child))
        ELSE IF tag = "supplied" THEN Ok(render_supplied(child))
        ELSE IF tag = "gap" THEN render_gap(child)
        ELSE IF tag = "del" THEN Ok(render_del(child))
        ELSE IF tag = "add" THEN Ok(render_add(child))
        ELSE IF tag = "choice" THEN Ok(render_choice(child))
        ELSE IF tag = "hi" THEN Ok(render_hi(child))
        ELSE IF tag = "expan" THEN Ok(render_expan(child))
        ELSE IF tag = "interp" THEN Ok(render_interp(child))
        ELSE IF tag \in {"abbr", "ex", "num"} THEN Ok(render_abbr(child))
        ELSE IF tag = "g" THEN Ok(render_g(child))
        ELSE IF tag = "surplus" THEN Ok(render_surplus(child))
        ELSE IF tag = "note" THEN Ok(render_note(child))
        ELSE IF tag = "space" THEN Ok(render_space(child))
        ELSE format_leiden_text(child)

\* short_circuit never taken: a div is processed like any other element
short_circuit_never(e) == FALSE

\* lines 173-176: the element is a div with an ab child
short_circuit(e) == localName(e) = "div" /\ find(e, "ab") # None

\* lines 178-342: the for loop from child i on, text holding acc
RECURSIVE for_loop(_, _, _)
for_loop(kids, i, acc) ==
    IF i > Len(kids) THEN Ok(acc)
    ELSE LET r == render_child(kids[i])
         IN  IF r.exc # "" THEN r
             ELSE for_loop(kids, i + 1, acc \o r.text \o kids[i].tail)

\* lines 163-344
format_leiden_text(e) ==
    IF short_circuit(e) THEN format_leiden_text(find(e, "ab"))
    ELSE for_loop(e.kids, 1, e.text)

---------------------------------------------------------------------------
\* The elements format_leiden_text is called on.

\* str(n) for a natural number n
RECURSIVE str(_)
str(n) == IF n < 10 THEN <<Digits[n + 1]>> ELSE str(n \div 10) \o <<Digits[(n % 10) + 1]>>

\* The attribute name, absent or with one of the values.
Opt(name, values) == {{}} \cup {{<<name, v>>} : v \in values}
Both(A, B) == {a \cup b : a \in A, b \in B}

\* Tails are written with characters no text, attribute or marker holds, so that
\* the tails can be read off a rendering.
TailChars == {"~", "^"}
Tails == {<<>>, <<"~">>}
Texts == {<<>>, <<"a">>}

Low == <<"l", "o", "w">>
Lost == <<"l", "o", "s", "t">>
Other == <<"o", "t", "h", "e", "r">>

QuantityValues ==
    {str(0), str(1), str(3), str(MaxQty), <<"x">>, <<"c", ".", "3">>, <<"-", "2">>, <<" ", "4">>}

GapAttribs ==
    Both(Opt("reason", {<<"e", "l", "l", "i", "p", "s", "i", "s">>}),
    Both(Opt("unit", {Character, Line}),
    Both(Opt("extent", {Unknown}),
    Both(Opt("precision", {Low}), Opt("quantity", QuantityValues)))))

SpaceAttribs ==
    Both(Opt("unit", {Character, Line}), Both(Opt("extent", {Unknown}), Opt("quantity", {str(2)})))

SuppliedAttribs ==
    Both(Opt("reason", {Lost, <<"u", "n", "d", "e", "f", "i", "n", "e", "d">>,
                        <<"o", "m", "i", "t", "t", "e", "d">>,
                        <<"s", "u", "b", "a", "u", "d", "i", "b", "l", "e">>, Other}),
         Opt("cert", {Low, <<"h", "i", "g", "h">>}))

\* (tag, attribute pairs) of the children without children of their own
Shapes ==
    ({"lb"} \X Both(Opt("n", {<<"5">>, <<>>}), Opt("break", {<<"n", "o">>})))
    \cup ({"gap"} \X GapAttribs)
    \cup ({"space"} \X SpaceAttribs)
    \cup ({"supplied"} \X SuppliedAttribs)
    \cup ({"del"} \X Opt("rend", {<<"e", "r", "a", "s", "u", "r", "e">>}))
    \cup ({"add"} \X Opt("place", {<<"o", "v", "e", "r", "s", "t", "r", "i", "k", "e">>,
                                   <<"a", "b", "o", "v", "e">>, <<"b", "e", "l", "o", "w">>, Other}))
    \cup ({"hi"} \X Opt("rend", {<<"a", "p", "e", "x">>,
                                 <<"s", "u", "p", "r", "a", "l", "i", "n", "e">>,
                                 <<"l", "i", "g", "a", "t", "u", "r", "e">>, Other}))
    \cup ({"g"} \X Opt("type", {<<"c", "h", "i", "r", "h", "o">>}))
    \cup ({"div"} \X Both(Opt("type", {Textpart, Other}), Opt("n", {<<"1">>})))
    \cup ({"unclear", "orig", "interp", "abbr", "ex", "num", "surplus", "note", "w",
           "choice", "expan", "ab", "foo"} \X {{}})

\* The tags whose own text the loop never reads.
Textless == {"lb", "gap", "space", "interp", "g"}

Leaves ==
    {Element("tei", sh[1], Attrib(sh[2]), t, <<>>, tl) :
         sh \in {x \in Shapes : x[1] \notin Textless}, t \in Texts, tl \in Tails}
    \cup {Element("tei", sh[1], Attrib(sh[2]), <<>>, <<>>, tl) :
         sh \in {x \in Shapes : x[1] \in Textless}, tl \in Tails}
    \cup {Element("tei", "note", NoAttrib, t, <<>>, <<>>) :
              t \in {<<"!">>, <<"s", "i", "c">>, <<"e", ".", "g", ".">>}}
    \cup {Element("tei", "foo", NoAttrib, <<"x", "y", "z">>, <<>>, tl) : tl \in Tails}
    \cup {Element("tei", "supplied", Attrib({<<"reason", Lost>>, <<"cert", Low>>}),
                   <<"a", "b", "c">>, <<>>, tl) : tl \in Tails}

\* A few children to put beside and below others.
Inner ==
    { Element("tei", "lb", Attrib({<<"n", <<"5">>>>}), <<>>, <<>>, <<"~">>),
      Element("tei", "unclear", NoAttrib, <<"b">>, <<>>, <<"^">>),
      Element("tei", "foo", NoAttrib, <<"x", "y", "z">>, <<>>, <<"~">>),
      Element("tei", "ab", NoAttrib, <<"c">>, <<>>, <<"^">>),
      Element("tei", "gap", Attrib({<<"unit", Character>>, <<"quantity", <<"x">>>>}), <<>>, <<>>, <<>>),
      Element("tei", "gap", Attrib({<<"unit", Character>>, <<"quantity", str(3)>>}), <<>>, <<>>, <<"~">>) }

\* The children of a choice and of an expan.
PairKids ==
    { Element("tei", tg, NoAttrib, t, <<>>, <<"^">>) :
          tg \in {"corr", "sic", "reg", "orig", "abbr", "ex"}, t \in {<<>>, <<"d">>} }
    \cup { Element("tei", "ex", Attrib({<<"cert", Low>>}), <<"d">>, <<>>, <<"^">>) }

SeqsUpTo(S, n) == UNION {[1..k -> S] : k \in 0..n}

\* Children with children of their own.
Containers ==
    { Element("tei", sh[1], Attrib(sh[2]), t, kids, <<"~">>) :
          sh \in ({"supplied"} \X {{<<"reason", Lost>>}})
                 \cup ({"div"} \X {{}, {<<"type", Textpart>>, <<"n", <<"1">>>>}})
                 \cup ({"unclear", "orig", "add", "hi", "abbr", "surplus", "note", "del",
                        "w", "foo", "ab", "choice", "expan"} \X {{}}),
          t \in {<<"a">>},
          kids \in SeqsUpTo(Inner, 2) \ {<<>>} }
    \cup { Element("tei", tg, NoAttrib, <<>>, kids, <<"~">>) :
          tg \in {"choice", "expan"}, kids \in [1..2 -> PairKids] }

Roots == {"ab", "div"}

LeidenInputs ==
    { Element("tei", tg, NoAttrib, t, kids, <<>>) :
          tg \in Roots, t \in Texts, kids \in SeqsUpTo(Inner, MaxKids) }
    \cup { Element("tei", tg, NoAttrib, t, <<k>>, <<>>) :
          tg \in Roots, t \in Texts, k \in Leaves \cup Containers }
    \cup { Element("tei", tg, NoAttrib, t, <<k1, k2>>, <<>>) :
          tg \in Roots, t \in Texts, k2 \in Leaves,
          k1 \in {Element("tei", "ab", NoAttrib, <<"c">>, <<>>, <<"^">>)} }

---------------------------------------------------------------------------
\* One call of format_leiden_text, followed through its loop.

BatchIdle ==
    /\ uploaded_files = <<>>
    /\ pc = "idle"
    /\ idx = 0
    /\ parsed_files = <<>>
    /\ unique_types = {}
    /\ unique_materials = {}
    /\ unique_categories = {}
    /\ all_data = <<>>
    /\ diagnostics = <<>>
    /\ shown = <<>>
    /\ monument_data = <<>>
    /\ search = <<>>
    /\ results = <<>>
    /\ analytics = ""
    /\ exception = ""

LeidenInit ==
    /\ arg \in LeidenInputs
    /\ elem = arg
    /\ text = <<>>
    /\ ci = 0
    /\ lpc = "enter"
    /\ BatchIdle

\* lines 173-176: return format_leiden_text(ab_elem)
ShortCircuit ==
    /\ lpc = "enter"
    /\ short_circuit(elem)
    /\ elem' = find(elem, "ab")
    /\ UNCHANGED <<arg, text, ci, lpc>>
    /\ UNCHANGED bvars

\* lines 168-170, reaching the for loop
Begin ==
    /\ lpc = "enter"
    /\ ~short_circuit(elem)
    /\ text' = elem.text
    /\ ci' = 0
    /\ lpc' = "loop"
    /\ UNCHANGED <<arg, elem>>
    /\ UNCHANGED bvars

\* lines 178-342: one turn of the for loop
Step ==
    /\ lpc = "loop"
    /\ ci < Len(elem.kids)
    /\ LET child == elem.kids[ci + 1]
           r == render_child(child)
       IN  IF r.exc # ""
           THEN /\ lpc' = r.exc
                /\ UNCHANGED <<text, ci>>
           ELSE /\ text' = text \o r.text \o child.tail
                /\ ci' = ci + 1
                /\ lpc' = "loop"
    /\ UNCHANGED <<arg, elem>>
    /\ UNCHANGED bvars

\* line 344
Return ==
    /\ lpc = "loop"
    /\ ci = Len(elem.kids)
    /\ lpc' = "done"
    /\ UNCHANGED <<arg, elem, text, ci>>
    /\ UNCHANGED bvars

LeidenNext == ShortCircuit \/ Begin \/ Step \/ Return

SpecLeiden == LeidenInit /\ [][LeidenNext]_vars

\* The loop followed step by step ends as the call does.
StepsAgree ==
    /\ lpc = "done" => format_leiden_text(arg) = Ok(text)
    /\ lpc \notin {"enter", "loop", "done"} => format_leiden_text(arg) = Raise(lpc)

---------------------------------------------------------------------------
\* The loader and the extractors.

En == <<"e", "n">>
Grc == <<"g", "r", "c">>
NotAvailable == <<"N", "o", "t", " ", "a", "v", "a", "i", "l", "a", "b", "l", "e">>
NoEdition ==
    <<"N", "o", " ", "G", "r", "e", "e", "k", " ", "e", "d", "i", "t", "i", "o", "n", " ",
      "t", "e", "x", "t", " ", "a", "v", "a", "i", "l", "a", "b", "l", "e", ".">>

\* sep.join(parts)
RECURSIVE join(_, _)
join(sep, parts) ==
    IF parts = <<>> THEN <<>>
    ELSE IF Len(parts) = 1 THEN Head(parts)
    ELSE Head(parts) \o sep \o join(sep, Tail(parts))

\* lines 122-132.  lang = <<>> stands for lang=None.  A call on None raises.
get_text(e, path, lang) ==
    IF e = None THEN [exc |-> "AttributeError", val |-> <<>>]
    ELSE LET xpath == IF lang # <<>>
                      THEN [path EXCEPT ![Len(path)] = With(@, "xml:lang", lang)]
                      ELSE path
             found == findPath(e, xpath)
         IN  [exc |-> "",
              val |-> IF found # None /\ found.text # <<>> THEN strip(found.text) ELSE <<>>]

\* A diagnostic shown to the user.
Message(level, name, what) == [level |-> level, file |-> name, what |-> what]

\* ET.tostring(root, encoding="unicode"): the serialization of the tree
tostring(root) == <<"tostring", root>>

\* parse_tei with the check of the root only advisory: the tree is returned
\* whatever its root is
parse_tei_advisory(file) ==
    IF ~file.wellformed
    THEN [root |-> None, raw_xml |-> <<>>,
          msgs |-> <<Message("error", file.name, "XML Parsing Error")>>]
    ELSE [root |-> file.root, raw_xml |-> tostring(file.root),
          msgs |-> (IF ~(file.root.ns = "tei" /\ file.root.tag = "TEI")
                    THEN <<Message("warning", file.name, "not a valid TEI document")>>
                    ELSE <<>>)
                   \o (IF find(file.root, "teiHeader") = None
                       THEN <<Message("warning", file.name, "missing teiHeader section")>>
                       ELSE <<>>)
                   \o (IF find(file.root, "text") = None
                       THEN <<Message("warning", file.name, "missing text section")>>
                       ELSE <<>>)]

\* lines 134-161.  A file is [name, wellformed, root]: ET.parse raises ParseError
\* on a file that is not well-formed and gives the tree with that root otherwise.
parse_tei(file) ==
    IF ~file.wellformed
    THEN [root |-> None, raw_xml |-> <<>>,
          msgs |-> <<Message("error", file.name, "XML Parsing Error")>>]
    ELSE IF ~(file.root.ns = "tei" /\ file.root.tag = "TEI")
    THEN [root |-> None, raw_xml |-> <<>>,
          msgs |-> <<Message("warning", file.name, "not a valid TEI document")>>]
    ELSE [root |-> file.root, raw_xml |-> tostring(file.root),
          msgs |-> (IF find(file.root, "teiHeader") = None
                    THEN <<Message("warning", file.name, "missing teiHeader section")>>
                    ELSE <<>>)
                   \o (IF find(file.root, "text") = None
                       THEN <<Message("warning", file.name, "missing text section")>>
                       ELSE <<>>)]

\* extract_english_text giving the sentinel, not the empty string, for no division
extract_english_text_sentinel(div, child_tag) ==
    LET T(e) == AttrIs(e, "xml:lang", En) /\ e.text # <<>>
        elems == SelectSeq(findallDeep(div, child_tag), T)
    IN  IF div = None THEN NotAvailable
        ELSE join(<<"\n">>, [j \in 1..Len(elems) |-> strip(elems[j].text)])

\* lines 347-358
extract_english_text(div, child_tag) ==
    IF div = None THEN <<>>
    ELSE LET T(e) == AttrIs(e, "xml:lang", En) /\ e.text # <<>>
             elems == SelectSeq(findallDeep(div, child_tag), T)
         IN  join(<<"\n">>, [j \in 1..Len(elems) |-> strip(elems[j].text)])

\* extract_apparatus_english with a line for every app, its note's text when
\* it has one
extract_apparatus_english_all(div) ==
    IF div = None THEN <<>>
    ELSE LET apps == findallDeep(div, "app")
         IN  join(<<"\n">>,
                  [j \in 1..Len(apps) |->
                      <<"L", "i", "n", "e", " ">> \o get(apps[j], "loc", <<>>) \o <<":", " ">>
                      \o strip(findDeep(apps[j], "note").text)])

\* lines 360-374
extract_apparatus_english(div) ==
    IF div = None THEN <<>>
    ELSE LET T(app) == LET note == findDeep(app, "note") IN note # None /\ note.text # <<>>
             apps == SelectSeq(findallDeep(div, "app"), T)
         IN  join(<<"\n">>,
                  [j \in 1..Len(apps) |->
                      <<"L", "i", "n", "e", " ">> \o get(apps[j], "loc", <<>>) \o <<":", " ">>
                      \o strip(findDeep(apps[j], "note").text)])

\* lines 384-409: the line of one bibl
bibl_parts(bibl) ==
    LET title == find(bibl, "title")
        date == find(bibl, "date")
        place == find(bibl, "pubPlace")
        volume == findPath(bibl, <<With(Child("biblScope"), "unit", <<"v", "o", "l", "u", "m", "e">>)>>)
        page == findPath(bibl, <<With(Child("biblScope"), "unit", <<"p", "a", "g", "e">>)>>)
    IN  (IF title # None /\ title.text # <<>> THEN <<strip(title.text)>> ELSE <<>>)
        \o (IF date # None /\ date.text # <<>>
            THEN <<(<<"(">> \o strip(date.text) \o <<")">>)>> ELSE <<>>)
        \o (IF place # None /\ place.text # <<>> THEN <<strip(place.text)>> ELSE <<>>)
        \o (IF volume # None /\ volume.text # <<>>
            THEN <<(<<"v", "o", "l", ".", " ">> \o strip(volume.text))>> ELSE <<>>)
        \o (IF page # None /\ page.text # <<>>
            THEN <<(<<"p", ".", " ">> \o strip(page.text))>> ELSE <<>>)

\* lines 376-411
extract_bibliography(div) ==
    IF div = None THEN <<>>
    ELSE LET T(b) == bibl_parts(b) # <<>>
             bibls == SelectSeq(findallDeep(div, "bibl"), T)
         IN  join(<<"\n">>, [j \in 1..Len(bibls) |-> join(<<",", " ">>, bibl_parts(bibls[j]))])

\* "<e>.find(tag) if <e> is not None else None"
find_if(e, tag) == IF e # None THEN find(e, tag) ELSE None

\* "<e>.text.strip() if <e> is not None and <e>.text else default"
text_or(e, default) == IF e # None /\ e.text # <<>> THEN strip(e.text) ELSE default

\* lines 538-540: one of height, width, depth.  The text of an element that is
\* there is stripped without a test, which raises when it has no text.
dimension(dimensions, tag) ==
    IF dimensions # None /\ find(dimensions, tag) # None
    THEN (IF find(dimensions, tag).text = <<>>
          THEN [exc |-> "AttributeError", val |-> <<>>]
          ELSE [exc |-> "", val |-> strip(find(dimensions, tag).text)])
    ELSE [exc |-> "", val |-> <<>>]

\* "x if x else 'Not available'"
or_not_available(x) == IF x # <<>> THEN x ELSE NotAvailable

\* lines 602-614: the division of each type the loop over the divs of body ends with
RECURSIVE last_of_type(_, _)
last_of_type(divs, type) ==
    IF divs = <<>> THEN None
    ELSE IF get(divs[Len(divs)], "type", <<>>) = type THEN divs[Len(divs)]
    ELSE last_of_type(SubSeq(divs, 1, Len(divs) - 1), type)

Edition == <<"e", "d", "i", "t", "i", "o", "n">>
Apparatus == <<"a", "p", "p", "a", "r", "a", "t", "u", "s">>
Translation == <<"t", "r", "a", "n", "s", "l", "a", "t", "i", "o", "n">>
Commentary == <<"c", "o", "m", "m", "e", "n", "t", "a", "r", "y">>
Bibliography == <<"b", "i", "b", "l", "i", "o", "g", "r", "a", "p", "h", "y">>

\* lines 593-614
locate(root, type) ==
    LET text_elem == find(root, "text")
        body_elem == find_if(text_elem, "body")
    IN  IF body_elem # None THEN last_of_type(findall(body_elem, "div"), type) ELSE None

\* s[:500]
TextLimit == 500
head500(s) == IF Len(s) > TextLimit THEN SubSeq(s, 1, TextLimit) ELSE s

\* lines 488-590: the fields read from the header.  exc is the exception the
\* extraction raises, "" when it raises none.
metadata(root) ==
    LET tei_header == find(root, "teiHeader")
        file_desc == find_if(tei_header, "fileDesc")
        title_stmt == find_if(file_desc, "titleStmt")
        publication_stmt == find_if(file_desc, "publicationStmt")
        source_desc == find_if(file_desc, "sourceDesc")
        ms_desc == find_if(source_desc, "msDesc")
        title_elem == find_if(title_stmt, "title")
        mon_id == get_text(publication_stmt,
                           <<With(Child("idno"), "type", <<"f", "i", "l", "e", "n", "a", "m", "e">>)>>,
                           <<>>)
        editors == IF title_stmt # None THEN findall(title_stmt, "editor") ELSE <<>>
        HasText(ed) == ed.text # <<>>
        named == SelectSeq(editors, HasText)
        editor_names == [j \in 1..Len(named) |-> strip(named[j].text)]
        phys_desc == find_if(ms_desc, "physDesc")
        object_desc == find_if(phys_desc, "objectDesc")
        support_desc == find_if(object_desc, "supportDesc")
        support == find_if(support_desc, "support")
        ms_identifier == find_if(ms_desc, "msIdentifier")
        dimensions == find_if(support, "dimensions")
        height == dimension(dimensions, "height")
        width == dimension(dimensions, "width")
        depth == dimension(dimensions, "depth")
        hand_desc == find_if(phys_desc, "handDesc")
        hand_note == find_if(hand_desc, "handNote")
        layout_desc == find_if(object_desc, "layoutDesc")
        layout == get_text(layout_desc, <<Child("layout")>>, En)
        history == find_if(ms_desc, "history")
        provenance_found == IF history # None
                            THEN findPath(history, <<With(Child("provenance"), "type",
                                                          <<"f", "o", "u", "n", "d">>)>>)
                            ELSE None
        origin_elem == find_if(history, "origin")
        orig_date == find_if(origin_elem, "origDate")
        not_before == IF orig_date # None THEN get(orig_date, "notBefore", <<>>) ELSE <<>>
        not_after == IF orig_date # None THEN get(orig_date, "notAfter", <<>>) ELSE <<>>
        ms_contents == find_if(ms_desc, "msContents")
        summary == find_if(ms_contents, "summary")
        seg == IF summary # None
               THEN findPath(summary, <<With(Child("seg"), "xml:lang", En)>>) ELSE None
    IN  [ exc |-> IF mon_id.exc # "" THEN mon_id.exc
                  ELSE IF height.exc # "" THEN height.exc
                  ELSE IF width.exc # "" THEN width.exc
                  ELSE IF depth.exc # "" THEN depth.exc
                  ELSE layout.exc,
          monument_title |-> text_or(title_elem, <<"U", "n", "t", "i", "t", "l", "e", "d", " ",
                                                   "M", "o", "n", "u", "m", "e", "n", "t">>),
          mon_id |-> mon_id.val,
          editor_str |-> IF editor_names # <<>> THEN join(<<",", " ">>, editor_names)
                         ELSE NotAvailable,
          object_type |-> text_or(find_if(support, "objectType"), NotAvailable),
          material |-> text_or(find_if(support, "material"), NotAvailable),
          institution |-> text_or(find_if(ms_identifier, "repository"), <<>>),
          inventory |-> text_or(find_if(ms_identifier, "idno"), <<>>),
          height |-> height.val,
          width |-> width.val,
          depth |-> depth.val,
          letter_size |-> text_or(find_if(hand_note, "height"), <<>>),
          layout |-> layout.val,
          find_place |-> text_or(find_if(provenance_found, "origPlace"), <<>>),
          origin |-> text_or(find_if(origin_elem, "origPlace"), <<>>),
          dating |-> IF orig_date # None /\ orig_date.text # <<>>
                     THEN strip(orig_date.text)
                          \o (IF not_before # <<>> /\ not_after # <<>>
                              THEN <<" ", "(", "b", "e", "t", "w", "e", "e", "n", " ">> \o not_before
                                   \o <<" ", "a", "n", "d", " ">> \o not_after \o <<")">>
                              ELSE <<>>)
                     ELSE <<>>,
          inscription_category |-> text_or(seg, <<>>) ]

\* lines 593-624: the texts of the sections
sections(root) ==
    LET edition_div == locate(root, Edition)
        leiden == IF edition_div # None THEN format_leiden_text(edition_div) ELSE Ok(NoEdition)
    IN  [ exc |-> leiden.exc,
          leiden_text |-> leiden.text,
          apparatus_text |-> extract_apparatus_english(locate(root, Apparatus)),
          translation_text |-> extract_english_text(locate(root, Translation), "seg"),
          commentary_text |-> extract_english_text(locate(root, Commentary), "seg"),
          bibliography_text |-> extract_bibliography(locate(root, Bibliography)) ]

NoTranslation ==
    <<"N", "o", " ", "t", "r", "a", "n", "s", "l", "a", "t", "i", "o", "n", " ", "a",
    "v", "a", "i", "l", "a", "b", "l", "e", ".">>
NoApparatus ==
    <<"N", "o", " ", "a", "p", "p", "a", "r", "a", "t", "u", "s", " ", "n", "o", "t",
    "e", "s", " ", "a", "v", "a", "i", "l", "a", "b", "l", "e", ".">>
NoCommentary ==
    <<"N", "o", " ", "c", "o", "m", "m", "e", "n", "t", "a", "r", "y", " ", "a", "v",
    "a", "i", "l", "a", "b", "l", "e", ".">>
NoBibliography ==
    <<"N", "o", " ", "b", "i", "b", "l", "i", "o", "g", "r", "a", "p", "h", "y", " ",
    "a", "v", "a", "i", "l", "a", "b", "l", "e", ".">>

\* "st.text(x) if x else st.write(message)"
text_or_message(x, message) == IF x # <<>> THEN x ELSE message

\* lines 627-643 and 723-749: what is written for one document
display(name, m, t) ==
    [ name |-> name,
      monument_title |-> m.monument_title,
      editors |-> m.editor_str,
      type |-> or_not_available(m.object_type),
      material |-> or_not_available(m.material),
      find_place |-> or_not_available(m.find_place),
      origin |-> or_not_available(m.origin),
      institution |-> m.institution,
      inventory |-> m.inventory,
      height |-> m.height,
      width |-> m.width,
      depth |-> m.depth,
      letter_size |-> m.letter_size,
      layout |-> or_not_available(m.layout),
      category |-> m.inscription_category,
      date |-> or_not_available(m.dating),
      leiden_text |-> t.leiden_text,
      translation |-> text_or_message(t.translation_text, NoTranslation),
      apparatus |-> text_or_message(t.apparatus_text, NoApparatus),
      commentary |-> text_or_message(t.commentary_text, NoCommentary),
      bibliography |-> text_or_message(t.bibliography_text, NoBibliography),
      translation_text |-> t.translation_text,
      apparatus_text |-> t.apparatus_text,
      commentary_text |-> t.commentary_text,
      bibliography_text |-> t.bibliography_text ]

\* lines 761-782
build_monument_data(m, t) ==
    [ ID |-> clean(or_not_available(m.inventory)),
      Type |-> clean(or_not_available(m.object_type)),
      Material |-> clean(or_not_available(m.material)),
      Origin |-> clean(or_not_available(m.origin)),
      Date |-> clean(or_not_available(m.dating)),
      Text |-> clean(IF t.leiden_text # <<>> THEN head500(t.leiden_text) ELSE NotAvailable),
      Bibliography |-> clean(IF t.bibliography_text # <<>>
                             THEN head500(t.bibliography_text) ELSE NotAvailable),
      Category |-> clean(or_not_available(m.inscription_category)),
      Dimensions |-> [ height |-> or_not_available(m.height),
                       width |-> or_not_available(m.width),
                       depth |-> or_not_available(m.depth) ],
      Institution |-> clean(or_not_available(m.institution)),
      FindPlace |-> clean(or_not_available(m.find_place)) ]

---------------------------------------------------------------------------
\* The uploaded documents.  A document is the full record of a monument with
\* the nodes named in O left out; eds are its edition divisions, in order.

Keep(O, name, e) == IF name \in O THEN <<>> ELSE <<e>>
Lang(l) == Attrib({<<"xml:lang", l>>})
Leaf(tag, txt) == E(tag, txt, <<>>)

TypeText(v) == IF v = 1 THEN <<" ", "S", "t">> ELSE <<"A", "l">>
MaterialText(v) == IF v = 1 THEN <<"M", "a">> ELSE <<"L", "i">>
CategoryText(v) == IF v = 1 THEN <<"V", "o">> ELSE <<"F", "u">>

SupportOf(O, v) ==
    E("support", <<>>,
      Keep(O, "objectType", Element("tei", "objectType", Lang(En), TypeText(v), <<>>, <<>>))
      \o Keep(O, "material", Element("tei", "material", Lang(En), MaterialText(v), <<>>, <<>>))
      \o Keep(O, "dimensions",
              E("dimensions", <<>>,
                Keep(O, "height", Leaf("height", IF "height.text" \in O THEN <<>> ELSE <<"9">>))
                \o Keep(O, "width", Leaf("width", <<"8">>))
                \o Keep(O, "depth", Leaf("depth", <<"6">>)))))

PhysDescOf(O, v) ==
    E("physDesc", <<>>,
      Keep(O, "objectDesc",
           E("objectDesc", <<>>,
             Keep(O, "supportDesc", E("supportDesc", <<>>, Keep(O, "support", SupportOf(O, v))))
             \o Keep(O, "layoutDesc",
                     E("layoutDesc", <<>>,
                       Keep(O, "layout",
                            Element("tei", "layout", Lang(En), <<"L", "y">>, <<>>, <<>>))))))
      \o Keep(O, "handDesc",
              E("handDesc", <<>>,
                Keep(O, "handNote",
                     E("handNote", <<>>, Keep(O, "letterHeight", Leaf("height", <<"2">>)))))))

HistoryOf(O) ==
    E("history", <<>>,
      Keep(O, "origin",
           E("origin", <<>>,
             Keep(O, "origPlace", Leaf("origPlace", <<"O", "r">>))
             \o Keep(O, "origDate",
                     Element("tei", "origDate",
                             Attrib({<<"notBefore", <<"1">>>>, <<"notAfter", <<"2">>>>}),
                             <<"D">>, <<>>, <<>>))))
      \o Keep(O, "provenance",
              Element("tei", "provenance", Attrib({<<"type", <<"f", "o", "u", "n", "d">>>>}), <<>>,
                      Keep(O, "findPlace", Leaf("origPlace", <<"F", "p">>)), <<>>)))

MsDescOf(O, v) ==
    E("msDesc", <<>>,
      Keep(O, "msIdentifier",
           E("msIdentifier", <<>>,
             Keep(O, "repository", Leaf("repository", <<"R", "e">>))
             \o Keep(O, "inventory", Leaf("idno", <<"7">>))))
      \o Keep(O, "msContents",
              E("msContents", <<>>,
                Keep(O, "summary",
                     E("summary", <<>>,
                       Keep(O, "seg",
                            Element("tei", "seg", Lang(En), CategoryText(v), <<>>, <<>>))))))
      \o Keep(O, "physDesc", PhysDescOf(O, v))
      \o Keep(O, "history", HistoryOf(O)))

HeaderOf(O, v) ==
    E("teiHeader", <<>>,
      Keep(O, "fileDesc",
           E("fileDesc", <<>>,
             Keep(O, "titleStmt",
                  E("titleStmt", <<>>,
                    Keep(O, "title", Leaf("title", <<"T", "i">>))
                    \o Keep(O, "editor", Leaf("editor", <<"E", "d">>))))
             \o Keep(O, "publicationStmt",
                     E("publicationStmt", <<>>,
                       Keep(O, "filename",
                            Element("tei", "idno",
                                    Attrib({<<"type", <<"f", "i", "l", "e", "n", "a", "m", "e">>>>}),
                                    <<"m", "1">>, <<>>, <<>>))))
             \o Keep(O, "sourceDesc", E("sourceDesc", <<>>, Keep(O, "msDesc", MsDescOf(O, v)))))))

\* An edition division: of Greek, of English, with no language, or of Greek
\* with a gap whose quantity is a range.
EditionKinds == {"grc", "en", "none", "range"}
EditionDiv(kind) ==
    Element("tei", "div",
            Attrib({<<"type", Edition>>}
                   \cup (IF kind = "none" THEN {}
                         ELSE {<<"xml:lang", IF kind = "en" THEN En ELSE Grc>>})),
            <<>>,
            << E("ab",
                 IF kind = "en" THEN <<"e", "n", "g">>
                 ELSE IF kind = "none" THEN <<"E", "n", "g">> ELSE <<"g", "r", "c">>,
                 << Element("tei", "lb", Attrib({<<"n", <<"1">>>>}), <<>>, <<>>, <<"k">>) >>
                 \o (IF kind = "range"
                     THEN << Element("tei", "gap",
                                     Attrib({<<"unit", Character>>, <<"quantity", <<"2", "-", "3">>>>}),
                                     <<>>, <<>>, <<>>) >>
                     ELSE <<>>)) >>,
            <<>>)

TypedDiv(type, kids) == Element("tei", "div", Attrib({<<"type", type>>}), <<>>, kids, <<>>)

BodyOf(O, eds) ==
    E("body", <<>>,
      (IF "edition" \in O THEN <<>> ELSE [j \in 1..Len(eds) |-> EditionDiv(eds[j])])
      \o Keep(O, "apparatus",
              TypedDiv(Apparatus,
                       << E("listApp", <<>>,
                            Keep(O, "app1",
                                 Element("tei", "app", Attrib({<<"loc", <<"1">>>>}), <<>>,
                                         Keep(O, "note1", Leaf("note", <<"n", "t">>)), <<>>))
                            \o << Element("tei", "app",
                                          IF "loc2" \in O THEN NoAttrib
                                          ELSE Attrib({<<"loc", <<"2">>>>}),
                                          <<>>,
                                          Keep(O, "note2",
                                               Element("tei", "note", Lang(<<"d", "e">>),
                                                       IF "note2.text" \in O THEN <<>>
                                                       ELSE <<" ", "d", "t">>,
                                                       <<>>, <<>>)),
                                          <<>>) >>) >>))
      \o Keep(O, "translation",
              TypedDiv(Translation,
                       << E("p", <<>>, <<Element("tei", "seg", Lang(En), <<" ", "t", "r">>, <<>>, <<>>)>>) >>))
      \o Keep(O, "commentary",
              TypedDiv(Commentary,
                       << E("p", <<>>, <<Element("tei", "seg", Lang(En), <<"c", "o">>, <<>>, <<>>)>>) >>))
      \o Keep(O, "bibliography",
              TypedDiv(Bibliography,
                       << E("listBibl", <<>>,
                            << E("bibl", <<>>, <<Leaf("title", <<"B", "i">>), Leaf("date", <<"1">>)>>) >>) >>)))

Doc(O, eds, v) ==
    E("TEI", <<>>,
      Keep(O, "teiHeader", HeaderOf(O, v))
      \o Keep(O, "text", E("text", <<>>, Keep(O, "body", BodyOf(O, eds)))))

HeaderNodes ==
    {"teiHeader", "fileDesc", "titleStmt", "title", "editor", "publicationStmt", "filename",
     "sourceDesc", "msDesc", "msIdentifier", "repository", "inventory", "msContents",
     "summary", "seg", "physDesc", "objectDesc", "supportDesc", "support", "objectType",
     "material", "dimensions", "height", "width", "depth", "height.text", "layoutDesc",
     "layout", "handDesc", "handNote", "letterHeight", "history", "origin", "origPlace",
     "origDate", "provenance", "findPlace"}

SectionNodes ==
    {"text", "body", "edition", "apparatus", "translation", "commentary", "bibliography"}

\* What an apparatus may lack: its first entry, the note of an entry, the text
\* of a note, the loc of an entry.
ApparatusNodes == {"app1", "note1", "note2", "note2.text", "loc2"}

File(name, root) == [name |-> name, wellformed |-> TRUE, root |-> root]

\* A file that is not well-formed XML.
Malformed == [name |-> "bad.xml", wellformed |-> FALSE, root |-> None]

\* A well-formed file whose root is not {http://www.tei-c.org/ns/1.0}TEI.
NotTei == File("page.xml", Element("", "TEI", NoAttrib, <<>>, Doc({}, <<"grc">>, 1).kids, <<>>))

SmallFiles ==
    { Malformed, NotTei,
      File("m1.xml", Doc({}, <<"grc">>, 1)),
      File("m2.xml", Doc({}, <<"grc">>, 2)),
      File("nohead.xml", Doc({"teiHeader"}, <<"grc">>, 1)),
      File("notext.xml", Doc({"text"}, <<"grc">>, 2)) }

\* The subsets of S of at most n elements.
RECURSIVE SubsetsUpTo(_, _)
SubsetsUpTo(S, n) ==
    IF n = 0 THEN {{}}
    ELSE SubsetsUpTo(S, n - 1) \cup {T \cup {x} : T \in SubsetsUpTo(S, n - 1), x \in S}

DocVariants ==
    { Doc(O, <<"grc">>, 1) : O \in SubsetsUpTo(HeaderNodes, MaxOmitted) }
    \cup { Doc(O, <<"grc">>, 1) : O \in SUBSET SectionNodes }
    \cup { Doc(O, <<"grc">>, 1) : O \in SUBSET ApparatusNodes }
    \cup { Doc({}, eds, 1) : eds \in SeqsUpTo(EditionKinds, 2) }

Batches ==
    SeqsUpTo(SmallFiles, MaxFiles)
    \cup { <<File("doc.xml", d)>> : d \in DocVariants }

---------------------------------------------------------------------------
\* One run of the script over the uploaded batch (lines 441-956).

LeidenIdle ==
    /\ arg = None
    /\ elem = None
    /\ text = <<>>
    /\ ci = 0
    /\ lpc = "idle"

Init ==
    /\ uploaded_files \in Batches
    /\ pc = "start"
    /\ idx = 0
    /\ parsed_files = <<>>
    /\ unique_types = {}
    /\ unique_materials = {}
    /\ unique_categories = {}
    /\ all_data = <<>>
    /\ diagnostics = <<>>
    /\ shown = <<>>
    /\ monument_data = <<>>
    /\ search = <<>>
    /\ results = <<>>
    /\ analytics = ""
    /\ exception = ""
    /\ LeidenIdle

\* lines 441-449: nothing is uploaded and nothing runs, or the loops start
Start ==
    /\ pc = "start"
    /\ pc' = IF uploaded_files = <<>> THEN "done" ELSE "upload"
    /\ UNCHANGED <<uploaded_files, idx, parsed_files, unique_types, unique_materials,
                   unique_categories, all_data, diagnostics, shown, monument_data, search,
                   results, analytics, exception>>
    /\ UNCHANGED lvars

\* lines 461-478: the terms one parsed document adds to a set of suggestions
suggestion(root, tag) ==
    LET ms_desc == findDeep(root, "msDesc")
    IN  IF ms_desc = None THEN {}
        ELSE LET t == get_text(ms_desc, <<Deep(tag)>>, En).val
             IN  IF t # <<>> THEN {lower(t)} ELSE {}

category_suggestion(root) ==
    LET ms_desc == findDeep(root, "msDesc")
        summary == IF ms_desc = None THEN None ELSE findDeep(ms_desc, "summary")
    IN  IF summary = None THEN {}
        ELSE LET t == get_text(summary, <<Deep("seg")>>, En).val
             IN  IF t # <<>> THEN {lower(t)} ELSE {}

\* Upload with each set of suggestions replaced by the terms of the file being
\* processed, not added to
Upload_replacing ==
    /\ pc = "upload"
    /\ idx < Len(uploaded_files)
    /\ LET uploaded_file == uploaded_files[idx + 1]
           p == parse_tei(uploaded_file)
       IN  /\ diagnostics' = diagnostics \o p.msgs
           /\ IF p.root # None
              THEN /\ parsed_files' = Append(parsed_files,
                                             [name |-> uploaded_file.name, root |-> p.root,
                                              raw_xml |-> p.raw_xml])
                   /\ unique_types' = suggestion(p.root, "objectType")
                   /\ unique_materials' = suggestion(p.root, "material")
                   /\ unique_categories' = category_suggestion(p.root)
              ELSE UNCHANGED <<parsed_files, unique_types, unique_materials, unique_categories>>
    /\ idx' = idx + 1
    /\ UNCHANGED <<uploaded_files, pc, all_data, shown, monument_data, search, results,
                   analytics, exception>>
    /\ UNCHANGED lvars

\* lines 451-478: one turn of the loop over the uploaded files
Upload ==
    /\ pc = "upload"
    /\ idx < Len(uploaded_files)
    /\ LET uploaded_file == uploaded_files[idx + 1]
           p == parse_tei(uploaded_file)
       IN  /\ diagnostics' = diagnostics \o p.msgs
           /\ IF p.root # None
              THEN /\ parsed_files' = Append(parsed_files,
                                             [name |-> uploaded_file.name, root |-> p.root,
                                              raw_xml |-> p.raw_xml])
                   /\ unique_types' = unique_types \cup suggestion(p.root, "objectType")
                   /\ unique_materials' = unique_materials \cup suggestion(p.root, "material")
                   /\ unique_categories' = unique_categories \cup category_suggestion(p.root)
              ELSE UNCHANGED <<parsed_files, unique_types, unique_materials, unique_categories>>
    /\ idx' = idx + 1
    /\ UNCHANGED <<uploaded_files, pc, all_data, shown, monument_data, search, results,
                   analytics, exception>>
    /\ UNCHANGED lvars

\* line 480: the loop over the uploaded files is over
UploadDone ==
    /\ pc = "upload"
    /\ idx = Len(uploaded_files)
    /\ pc' = "viz"
    /\ idx' = 0
    /\ UNCHANGED <<uploaded_files, parsed_files, unique_types, unique_materials,
                   unique_categories, all_data, diagnostics, shown, monument_data, search,
                   results, analytics, exception>>
    /\ UNCHANGED lvars

\* Viz with the record of the document appended to all_data once it is
\* cleaned
Viz_appending ==
    /\ pc = "viz"
    /\ idx < Len(parsed_files)
    /\ \E file_data \in {parsed_files[idx + 1]} :
       \E m \in {metadata(file_data.root)}, t \in {sections(file_data.root)} :
           IF m.exc # "" \/ t.exc # ""
           THEN /\ pc' = "aborted"
                /\ exception' = IF m.exc # "" THEN m.exc ELSE t.exc
                /\ UNCHANGED <<idx, shown, monument_data, all_data>>
           ELSE /\ shown' = Append(shown, display(file_data.name, m, t))
                /\ \E d \in {build_monument_data(m, t)} :
                      /\ monument_data' = d
                      /\ all_data' = Append(all_data, d)
                /\ idx' = idx + 1
                /\ UNCHANGED <<pc, exception>>
    /\ UNCHANGED <<uploaded_files, parsed_files, unique_types, unique_materials,
                   unique_categories, diagnostics, search, results, analytics>>
    /\ UNCHANGED lvars

\* lines 481-782: one turn of the display loop.  An exception that nothing
\* catches ends the run of the script.
Viz ==
    /\ pc = "viz"
    /\ idx < Len(parsed_files)
    /\ \E file_data \in {parsed_files[idx + 1]} :
       \E m \in {metadata(file_data.root)}, t \in {sections(file_data.root)} :
           IF m.exc # "" \/ t.exc # ""
           THEN /\ pc' = "aborted"
                /\ exception' = IF m.exc # "" THEN m.exc ELSE t.exc
                /\ UNCHANGED <<idx, shown, monument_data>>
           ELSE /\ shown' = Append(shown, display(file_data.name, m, t))
                /\ monument_data' = build_monument_data(m, t)
                /\ idx' = idx + 1
                /\ UNCHANGED <<pc, exception>>
    /\ UNCHANGED <<uploaded_files, parsed_files, unique_types, unique_materials,
                   unique_categories, all_data, diagnostics, search, results, analytics>>
    /\ UNCHANGED lvars

\* line 784: the display loop is over
VizDone ==
    /\ pc = "viz"
    /\ idx = Len(parsed_files)
    /\ pc' = "query"
    /\ UNCHANGED <<uploaded_files, idx, parsed_files, unique_types, unique_materials,
                   unique_categories, all_data, diagnostics, shown, monument_data, search,
                   results, analytics, exception>>
    /\ UNCHANGED lvars

\* lines 788-815: the choices of the query tab
Categories == {"Monument Types", "Materials", "Categories", "Custom Search"}
Fields ==
    {"All Fields", "Monument Information", "Greek Text", "Translation", "Commentary",
     "Bibliography"}

\* What the user may type as a custom search term ("" is no term).
CustomTerms == {<<>>, Grc, <<"E", "n", "g">>, <<"c", "u", "s", "t", "o", "m">>}

\* lines 788-810: the terms the chosen category offers
terms(category) ==
    IF category = "Monument Types"
    THEN (IF unique_types # {} THEN unique_types ELSE {<<"N", "o", " ", "t", "y", "p", "e", "s", " ", "f", "o", "u", "n", "d">>})
    ELSE IF category = "Materials"
    THEN (IF unique_materials # {} THEN unique_materials ELSE {<<"N", "o", " ", "m", "a", "t", "e", "r", "i", "a", "l", "s", " ", "f", "o", "u", "n", "d">>})
    ELSE IF category = "Categories"
    THEN (IF unique_categories # {} THEN unique_categories ELSE {<<"N", "o", " ", "c", "a", "t", "e", "g", "o", "r", "i", "e", "s", " ", "f", "o", "u", "n", "d">>})
    ELSE CustomTerms

\* "if <t> and search_term_lower in <t>.lower()"
hit(t, term) == t # <<>> /\ Contains(lower(t), term)

\* "if <t> and ... : file_matches.append((<label>, <t>))": what one text adds
matches(label, t, term) == IF hit(t, term) THEN <<<<label, t>>>> ELSE <<>>

\* lines 829-846: the matches in the monument information of one document
info_matches(root, term, field) ==
    LET tei_header == find(root, "teiHeader")
        ms_desc == IF tei_header # None THEN findDeep(tei_header, "msDesc") ELSE None
    IN  IF ms_desc # None /\ field \in {"All Fields", "Monument Information"}
        THEN matches("Monument Type", get_text(ms_desc, <<Deep("objectType")>>, En).val, term)
             \o matches("Material", get_text(ms_desc, <<Deep("material")>>, En).val, term)
             \o matches("Origin",
                        get_text(ms_desc,
                                 <<Deep("origin"), Deep("origPlace"),
                                   With(Deep("seg"), "xml:lang", En)>>, <<>>).val,
                        term)
        ELSE <<>>

\* lines 857-859: the match in a formatted edition; r is what format_leiden_text
\* returned or raised
greek_matches(r, term) == IF r.exc # "" THEN r ELSE Ok(matches("Greek Text", r.text, term))

\* div_matches with the edition searched whatever its language
div_matches_any_language(div, term, field) ==
    LET div_type == get(div, "type", <<>>)
    IN  IF div_type = Edition /\ field \in {"Greek Text", "All Fields"}
        THEN greek_matches(format_leiden_text(div), term)
        ELSE IF div_type = Translation /\ field \in {"Translation", "All Fields"}
        THEN Ok(matches("Translation", extract_english_text(div, "seg"), term))
        ELSE IF div_type = Commentary /\ field \in {"Commentary", "All Fields"}
        THEN Ok(matches("Commentary", extract_english_text(div, "seg"), term))
        ELSE IF div_type = Bibliography /\ field \in {"Bibliography", "All Fields"}
        THEN Ok(matches("Bibliography", extract_bibliography(div), term))
        ELSE Ok(<<>>)

\* lines 851-877: the matches in one division of the body
div_matches(div, term, field) ==
    LET div_type == get(div, "type", <<>>)
    IN  IF div_type = Edition /\ field \in {"Greek Text", "All Fields"}
        THEN (IF AttrIs(div, "xml:lang", Grc)
              THEN greek_matches(format_leiden_text(div), term)
              ELSE Ok(<<>>))
        ELSE IF div_type = Translation /\ field \in {"Translation", "All Fields"}
        THEN Ok(matches("Translation", extract_english_text(div, "seg"), term))
        ELSE IF div_type = Commentary /\ field \in {"Commentary", "All Fields"}
        THEN Ok(matches("Commentary", extract_english_text(div, "seg"), term))
        ELSE IF div_type = Bibliography /\ field \in {"Bibliography", "All Fields"}
        THEN Ok(matches("Bibliography", extract_bibliography(div), term))
        ELSE Ok(<<>>)

\* The matches of the turns of a loop put together, rs being what each turn
\* gives: the loop ends at the first turn that raises.
RECURSIVE collect(_, _)
collect(rs, acc) ==
    IF rs = <<>> THEN Ok(acc)
    ELSE IF Head(rs).exc # "" THEN Head(rs)
    ELSE collect(Tail(rs), acc \o Head(rs).text)

\* lines 849-877: the loop over the divisions of the body
body_matches(divs, term, field, acc) ==
    collect([j \in 1..Len(divs) |-> div_matches(divs[j], term, field)], acc)

\* lines 826-877: the matches of one parsed file
file_matches(root, term, field) ==
    LET body_elem == findPath(root, <<Child("text"), Child("body")>>)
    IN  body_matches(IF body_elem # None THEN findall(body_elem, "div") ELSE <<>>,
                     term, field, info_matches(root, term, field))

\* lines 880-884: the entry of one file in the results, if it has matches
result_of(file_name, r) ==
    IF r.exc # "" THEN r
    ELSE Ok(IF r.text # <<>> THEN <<[file_name |-> file_name, matches |-> r.text]>> ELSE <<>>)

\* lines 823-884: the loop over the parsed files
search_files(term, field) ==
    collect([i \in 1..Len(parsed_files) |->
                result_of(parsed_files[i].name,
                          file_matches(parsed_files[i].root, term, field))],
            <<>>)

\* lines 784-895: the query tab, with what the user has chosen
Query ==
    /\ pc = "query"
    /\ \E category \in Categories, field \in Fields :
         \E term \in terms(category) :
            /\ search' = [category |-> category, term |-> term, field |-> field]
            /\ IF term # <<>> /\ term # <<"c", "u", "s", "t", "o", "m">>
               THEN \E r \in {search_files(strip(lower(term)), field)} :
                        IF r.exc # ""
                        THEN /\ pc' = "aborted"
                             /\ exception' = r.exc
                             /\ UNCHANGED results
                        ELSE /\ results' = r.text
                             /\ pc' = "analytics"
                             /\ UNCHANGED exception
               ELSE /\ pc' = "analytics"
                    /\ UNCHANGED <<results, exception>>
    /\ UNCHANGED <<uploaded_files, idx, parsed_files, unique_types, unique_materials,
                   unique_categories, all_data, diagnostics, shown, monument_data, analytics>>
    /\ UNCHANGED lvars

\* lines 897-956: the analytics tab
Analytics ==
    /\ pc = "analytics"
    /\ analytics' = IF all_data # <<>> THEN "charts" ELSE "no data"
    /\ pc' = "done"
    /\ UNCHANGED <<uploaded_files, idx, parsed_files, unique_types, unique_materials,
                   unique_categories, all_data, diagnostics, shown, monument_data, search,
                   results, exception>>
    /\ UNCHANGED lvars

Next == Start \/ Upload \/ UploadDone \/ Viz \/ VizDone \/ Query \/ Analytics

Spec == Init /\ [][Next]_vars

---------------------------------------------------------------------------
\* Claims about format_leiden_text, checked under SpecLeiden.

\* The characters of s that are tail characters, in order.
TailsRead(s) == LET T(c) == c \in TailChars IN SelectSeq(s, T)

\* The tails of the descendants of e in document order: a child's descendants
\* come before the child's own tail.
RECURSIVE DocTails(_)
RECURSIVE DocTailsOf(_)
DocTailsOf(kids) ==
    IF kids = <<>> THEN <<>>
    ELSE DocTails(Head(kids)) \o Head(kids).tail \o DocTailsOf(Tail(kids))
DocTails(e) == DocTailsOf(e.kids)

\* C1: for every element passed to format_leiden_text, the tail of every
\* descendant child appears in the output exactly once and in document order:
\* the tails read off the returned text are the tails of the descendants, in
\* document order, none missing and none repeated.
C1_TailsOnceInOrder == lpc = "done" => TailsRead(text) = DocTails(arg)

\* C2: format_leiden_text never raises, whatever the tags and attribute values
\* of the tree: no call ends in an exception.
C2_NeverRaises == lpc \in {"enter", "loop", "done"}

\* The tags the loop has a branch for, with the two tags of lines 173-176.
RecognizedTags ==
    {"lb", "div", "ab", "unclear", "orig", "supplied", "gap", "del", "add", "choice", "hi",
     "expan", "interp", "abbr", "ex", "num", "g", "surplus", "note", "space", "w"}

\* C7: a child whose tag is not recognized is rendered by recursing into it, so
\* its own text, the renderings of its descendants and its tail appear in the
\* output of the call made on its parent: nothing of it is dropped.
C7_UnrecognizedKept ==
    lpc = "done" =>
        \A i \in 1..Len(arg.kids) :
            LET child == arg.kids[i]
                r == format_leiden_text(child)
            IN  (localName(child) \notin RecognizedTags /\ r.exc = "")
                    => Contains(text, r.text \o child.tail)

\* A gap counted in characters that is not an ellipsis.
IsCharacterGap(k) ==
    /\ localName(k) = "gap"
    /\ AttrIs(k, "unit", Character)
    /\ ~AttrIs(k, "reason", <<"e", "l", "l", "i", "p", "s", "i", "s">>)

\* The quantity attribute is the decimal numeral of a number N in 0..MaxQty.
HasNumber(k) == HasAttr(k, "quantity") /\ \E n \in 0..MaxQty : k.attrib["quantity"] = str(n)
NumberOf(k) == CHOOSE n \in 0..MaxQty : k.attrib["quantity"] = str(n)

Dots(n) == [j \in 1..n |-> "."]

\* What C10 says a character gap renders as.
ExpectedGap(k) ==
    IF AttrIs(k, "extent", Unknown) THEN <<"[", ".", "?", "]">>
    ELSE IF AttrIs(k, "precision", Low)
    THEN <<"[", ".">> \o (IF HasAttr(k, "quantity") THEN k.attrib["quantity"] ELSE <<>>) \o <<"]">>
    ELSE <<"[">> \o Dots(NumberOf(k)) \o <<"]">>

\* C10: the turn of the loop on a gap child counted in characters (no ellipsis)
\* appends "[.?]" when extent is unknown, whatever quantity and precision are;
\* otherwise "[.N]" when precision is low, N being the quantity; otherwise "["
\* followed by exactly N dots and "]" when the quantity is the number N; the
\* child's tail follows.
C10_GapPrecedence ==
    [][ (/\ lpc = "loop"
         /\ ci < Len(elem.kids)
         /\ IsCharacterGap(elem.kids[ci + 1])
         /\ \/ AttrIs(elem.kids[ci + 1], "extent", Unknown)
            \/ AttrIs(elem.kids[ci + 1], "precision", Low)
            \/ HasNumber(elem.kids[ci + 1]))
        => /\ lpc' = "loop"
           /\ text' = text \o ExpectedGap(elem.kids[ci + 1]) \o elem.kids[ci + 1].tail ]_vars

\* A gap of three characters, with neither extent nor precision, was rendered
\* as "[...]" and its tail.
C10_Witness ==
    /\ lpc = "loop"
    /\ ci = 1
    /\ IsCharacterGap(elem.kids[1])
    /\ AttrIs(elem.kids[1], "quantity", <<"3">>)
    /\ ~HasAttr(elem.kids[1], "extent")
    /\ ~HasAttr(elem.kids[1], "precision")
    /\ elem.kids[1].tail = <<"~">>
    /\ text = elem.text \o <<"[", ".", ".", ".", "]", "~">>

---------------------------------------------------------------------------
\* Claims about the run over a batch, checked under Spec.

\* The root is {http://www.tei-c.org/ns/1.0}TEI.
IsTei(root) == root.ns = "tei" /\ root.tag = "TEI"

Stored(name) == \E j \in 1..Len(parsed_files) : parsed_files[j].name = name
Shown(name) == \E j \in 1..Len(shown) : shown[j].name = name
Reported(name) ==
    \E j \in 1..Len(diagnostics) : diagnostics[j].level = "error" /\ diagnostics[j].file = name
Warned(name, what) ==
    \E j \in 1..Len(diagnostics) : diagnostics[j] = Message("warning", name, what)

\* The loop over the uploaded files is over.
Loaded == pc \notin {"start", "upload"}

\* The display loop is over or the run has ended.
Displayed == pc \in {"query", "analytics", "done", "aborted"}

\* C3: once a file has parsed, whichever of its header or body nodes are absent,
\* extraction in the display loop gives empty or sentinel values and never
\* aborts the batch: the run never ends in the AttributeError of an access on a
\* node that is not there.
C3_DisplayNeverAborts == ~(pc = "aborted" /\ exception = "AttributeError")

\* A file that parses and whose own extraction raises nothing.
Valid(f) ==
    /\ f.wellformed
    /\ IsTei(f.root)
    /\ metadata(f.root).exc = ""
    /\ sections(f.root).exc = ""

\* C4: in a batch with a file that is not well-formed, that file is reported
\* with a diagnostic and skipped, and every valid file of the batch, before or
\* after it, is stored in parsed_files and has its results displayed by the end
\* of the run.
C4_MalformedSkipped ==
    Displayed =>
        \A i \in 1..Len(uploaded_files) :
            IF ~uploaded_files[i].wellformed
            THEN Reported(uploaded_files[i].name) /\ ~Stored(uploaded_files[i].name)
            ELSE (/\ Valid(uploaded_files[i])
                  /\ \E k \in 1..Len(uploaded_files) : ~uploaded_files[k].wellformed)
                     => Stored(uploaded_files[i].name) /\ Shown(uploaded_files[i].name)

C6_AbsentNodeNeverRaises ==
    \A i \in 1..Len(parsed_files) : metadata(parsed_files[i].root).exc = ""

\* The direct div children of body, and those of type edition.
body_divs(root) ==
    LET body_elem == find_if(find(root, "text"), "body")
    IN  IF body_elem # None THEN findall(body_elem, "div") ELSE <<>>
IsEdition(div) == get(div, "type", <<>>) = Edition
edition_divs(root) == SelectSeq(body_divs(root), IsEdition)
IsAncient(div) == AttrIs(div, "xml:lang", Grc)

\* C8: the edition displayed for a document is that of an edition division of
\* the ancient language whenever the body has one, and that of the only
\* edition division when the body has exactly one.
C8_PrefersAncientEdition ==
    \A i \in 1..Len(shown) :
        /\ (\E j \in 1..Len(edition_divs(parsed_files[i].root)) :
                IsAncient(edition_divs(parsed_files[i].root)[j]))
            => \E j \in 1..Len(edition_divs(parsed_files[i].root)) :
                    /\ IsAncient(edition_divs(parsed_files[i].root)[j])
                    /\ shown[i].leiden_text
                           = format_leiden_text(edition_divs(parsed_files[i].root)[j]).text
        /\ Len(edition_divs(parsed_files[i].root)) = 1
            => shown[i].leiden_text
                   = format_leiden_text(edition_divs(parsed_files[i].root)[1]).text

\* The texts of the four sections other than the edition, by type.
SectionTexts(d) ==
    << <<Apparatus, d.apparatus_text>>, <<Translation, d.translation_text>>,
       <<Commentary, d.commentary_text>>, <<Bibliography, d.bibliography_text>> >>

\* C9 as stated: a displayed document without a division of a type, the
\* edition included, has the empty text for that section.
C9_AbsentSectionEmpty ==
    \A i \in 1..Len(shown) :
        /\ locate(parsed_files[i].root, Edition) = None => shown[i].leiden_text = <<>>
        /\ \A k \in 1..4 :
              locate(parsed_files[i].root, SectionTexts(shown[i])[k][1]) = None
                  => SectionTexts(shown[i])[k][2] = <<>>

\* C9 as the code has it: for a parsed document without an edition division
\* nothing is raised for the edition and the text displayed is the placeholder
\* "No Greek edition text available."; without an apparatus, translation,
\* commentary or bibliography division the text of that section is empty.
C9_AbsentSection ==
    /\ \A i \in 1..Len(parsed_files) :
          locate(parsed_files[i].root, Edition) = None
              => sections(parsed_files[i].root).exc = ""
    /\ \A i \in 1..Len(shown) :
          /\ locate(parsed_files[i].root, Edition) = None => shown[i].leiden_text = NoEdition
          /\ \A k \in 1..4 :
                locate(parsed_files[i].root, SectionTexts(shown[i])[k][1]) = None
                    => SectionTexts(shown[i])[k][2] = <<>>

\* A document with neither an edition nor a translation division has been
\* displayed, with the placeholder for the edition and the empty translation.
C9_Witness ==
    \E i \in 1..Len(shown) :
        /\ find(parsed_files[i].root, "text") # None
        /\ locate(parsed_files[i].root, Edition) = None
        /\ locate(parsed_files[i].root, Translation) = None
        /\ locate(parsed_files[i].root, Commentary) # None
        /\ shown[i].leiden_text = NoEdition
        /\ shown[i].translation_text = <<>>
        /\ shown[i].translation = NoTranslation
        /\ shown[i].commentary_text # <<>>

---------------------------------------------------------------------------
\* Claims about single branches of format_leiden_text, checked under SpecLeiden.

\* The loop is about to process a child: that child.
Turn == lpc = "loop" /\ ci < Len(elem.kids)
Current == elem.kids[ci + 1]

\* The turn appends s and then the child's tail, and the loop goes on.
Appends(s) == lpc' = "loop" /\ text' = text \o s \o Current.tail

\* The first child has been processed and the loop has appended s and its tail.
FirstGave(s) == lpc = "loop" /\ ci = 1 /\ text = elem.text \o s \o elem.kids[1].tail

\* The brackets of a supplied text by reason; none for any other reason.
SuppliedBrackets ==
    { <<Lost, <<"[">>, <<"]">>>>,
      <<(<<"u", "n", "d", "e", "f", "i", "n", "e", "d">>), <<"_", "[">>, <<"]", "_">>>>,
      <<(<<"o", "m", "i", "t", "t", "e", "d">>), <<"<">>, <<">">>>>,
      <<(<<"s", "u", "b", "a", "u", "d", "i", "b", "l", "e">>), <<"(">>, <<")">>>> }

\* What C11 says a supplied child with own text k.text renders as.
ExpectedSupplied(k) ==
    IF \E b \in SuppliedBrackets : AttrIs(k, "reason", b[1])
    THEN LET b == CHOOSE b \in SuppliedBrackets : AttrIs(k, "reason", b[1])
         IN  b[2] \o k.text
             \o (IF b[1] = Lost /\ AttrIs(k, "cert", Low) THEN <<"?">> ELSE <<>>)
             \o b[3]
    ELSE k.text

\* C11: the turn of the loop on a supplied child with text t appends "[t]" for
\* reason lost, with "?" before "]" exactly when cert is low, "_[t]_" for
\* undefined, "<t>" for omitted, "(t)" for subaudible and t itself for any other
\* or no reason; cert changes nothing unless the reason is lost.
C11_SuppliedForms ==
    [][ (Turn /\ localName(Current) = "supplied") => Appends(ExpectedSupplied(Current)) ]_vars

\* A supplied child with reason lost, cert low and text "abc" was rendered as
\* "[abc?]".
C11_Witness ==
    /\ FirstGave(<<"[", "a", "b", "c", "?", "]">>)
    /\ localName(elem.kids[1]) = "supplied"
    /\ elem.kids[1].text = <<"a", "b", "c">>
    /\ AttrIs(elem.kids[1], "reason", Lost)
    /\ AttrIs(elem.kids[1], "cert", Low)

\* C12: the turn of the loop on an lb child with break="no" appends nothing for
\* the lb, neither newline nor line number: only its tail follows.
C12_NoBreakSuppressed ==
    [][ (Turn /\ localName(Current) = "lb" /\ AttrIs(Current, "break", <<"n", "o">>))
            => Appends(<<>>) ]_vars

\* C13: the turn of the loop on an lb child appends newline, N, ". " when its n
\* attribute is the non-empty N, and a single newline when it has no n or an
\* empty one; the lb's tail follows.
C13_LineBreak ==
    [][ (Turn /\ localName(Current) = "lb")
            => Appends(IF HasAttr(Current, "n") /\ Current.attrib["n"] # <<>>
                       THEN <<"\n">> \o Current.attrib["n"] \o <<".", " ">>
                       ELSE <<"\n">>) ]_vars

\* An lb with n="5" was rendered as newline, "5. " before its tail.
C13_Witness ==
    /\ FirstGave(<<"\n", "5", ".", " ">>)
    /\ localName(elem.kids[1]) = "lb"
    /\ AttrIs(elem.kids[1], "n", <<"5">>)
    /\ elem.kids[1].tail = <<"~">>

\* An lb without n was rendered as a single newline before its tail.
C13_WitnessUnnumbered ==
    /\ FirstGave(<<"\n">>)
    /\ localName(elem.kids[1]) = "lb"
    /\ ~HasAttr(elem.kids[1], "n")

\* C14: a call on a div that has an ab child returns what the call on that ab
\* returns, the div's own text and children left aside; and the turn of the
\* loop on a textpart div that has an ab child appends "<D=.N ", the rendering
\* of that ab and " =D>".
C14_DivRecursesIntoAb ==
    [][ /\ (lpc' = "done" /\ localName(arg) = "div" /\ find(arg, "ab") # None)
            => Ok(text') = format_leiden_text(find(arg, "ab"))
        /\ (/\ Turn
            /\ localName(Current) = "div"
            /\ AttrIs(Current, "type", Textpart)
            /\ find(Current, "ab") # None
            /\ format_leiden_text(find(Current, "ab")).exc = "")
            => Appends(<<"<", "D", "=", ".">> \o get(Current, "n", <<>>) \o <<" ">>
                       \o format_leiden_text(find(Current, "ab")).text
                       \o <<" ", "=", "D", ">">>) ]_vars

\* A call on a div with text "a" whose only child is an ab with text "c" and
\* tail "^" has returned "c".
C14_Witness ==
    /\ lpc = "done"
    /\ localName(arg) = "div"
    /\ arg.text = <<"a">>
    /\ Len(arg.kids) = 1
    /\ localName(arg.kids[1]) = "ab"
    /\ arg.kids[1].text = <<"c">>
    /\ arg.kids[1].tail = <<"^">>
    /\ text = <<"c">>

\* A textpart div with n="1" whose only child is that ab was rendered, as a
\* child, as "<D=.1 c =D>".
C14_WitnessTextpart ==
    /\ FirstGave(<<"<", "D", "=", ".", "1", " ", "c", " ", "=", "D", ">">>)
    /\ localName(elem.kids[1]) = "div"
    /\ AttrIs(elem.kids[1], "type", Textpart)
    /\ Len(elem.kids[1].kids) = 1
    /\ localName(elem.kids[1].kids[1]) = "ab"

\* What C16 says a choice child renders as: an element without text gives the
\* empty string.
ExpectedChoice(k) ==
    IF find(k, "corr") # None /\ find(k, "sic") # None
    THEN <<"<">> \o find(k, "corr").text \o <<"|", "c", "o", "r", "r", "|">>
         \o find(k, "sic").text \o <<">">>
    ELSE IF find(k, "reg") # None /\ find(k, "orig") # None
    THEN <<"<">> \o find(k, "orig").text \o <<"|", "r", "e", "g", "|">>
         \o find(k, "reg").text \o <<">">>
    ELSE itertext(k)

\* C16: the turn of the loop on a choice child appends "<C|corr|S>" when it has
\* a corr and a sic child, otherwise "<O|reg|R>" when it has a reg and an orig
\* child, otherwise all its nested text; C, S, O and R are the texts of those
\* elements, the empty string for an element without text.
C16_ChoiceForms ==
    [][ (Turn /\ localName(Current) = "choice") => Appends(ExpectedChoice(Current)) ]_vars

\* The tags of the branches that read child.text alone.
TextOnlyTags ==
    {"unclear", "orig", "supplied", "add", "hi", "abbr", "ex", "num", "surplus", "note"}

\* The child without what is nested in it.
OwnTextOnly(k) == [k EXCEPT !.kids = <<>>]

\* C18: the turn of the loop on a child of a text-only branch appends what it
\* appends for the same child with nothing nested in it: the text of the
\* elements nested in the child and their tails are nowhere in the output.
C18_TextOnlyBranches ==
    [][ (Turn /\ localName(Current) \in TextOnlyTags)
            => Appends(render_child(OwnTextOnly(Current)).text) ]_vars

\* A supplied child with reason lost and text "a" that holds an unclear "b"
\* with tail "^" was rendered as "[a]".
C18_Witness ==
    /\ FirstGave(<<"[", "a", "]">>)
    /\ localName(elem.kids[1]) = "supplied"
    /\ Len(elem.kids[1].kids) = 1
    /\ localName(elem.kids[1].kids[1]) = "unclear"
    /\ elem.kids[1].kids[1].text = <<"b">>
    /\ elem.kids[1].kids[1].tail = <<"^">>

\* What C19 says an expan child renders as.
ExpectedExpan(k) ==
    IF (\E j \in 1..Len(k.kids) : localName(k.kids[j]) = "abbr")
       /\ (\E j \in 1..Len(k.kids) : localName(k.kids[j]) = "ex")
    THEN LET abbr == k.kids[CHOOSE j \in 1..Len(k.kids) :
                               /\ localName(k.kids[j]) = "abbr"
                               /\ \A h \in 1..(j - 1) : localName(k.kids[h]) # "abbr"]
             ex == k.kids[CHOOSE j \in 1..Len(k.kids) :
                             /\ localName(k.kids[j]) = "ex"
                             /\ \A h \in 1..(j - 1) : localName(k.kids[h]) # "ex"]
         IN  abbr.text \o <<"(">> \o ex.text
             \o (IF AttrIs(ex, "cert", Low) THEN <<"?">> ELSE <<>>) \o <<")">>
    ELSE <<>>

\* C19: the turn of the loop on an expan child appends nothing when the child
\* lacks a direct abbr child or a direct ex child, whatever it holds; with both
\* it appends the abbr's text, "(", the ex's text, "?" exactly when the ex has
\* cert low, and ")".
C19_ExpanForms ==
    [][ (Turn /\ localName(Current) = "expan") => Appends(ExpectedExpan(Current)) ]_vars

\* An expan with abbr "d" and an ex "d" of low cert was rendered as "d(d?)".
C19_Witness ==
    /\ FirstGave(<<"d", "(", "d", "?", ")">>)
    /\ localName(elem.kids[1]) = "expan"
    /\ Len(elem.kids[1].kids) = 2
    /\ localName(elem.kids[1].kids[1]) = "abbr"
    /\ AttrIs(elem.kids[1].kids[2], "cert", Low)

\* An expan with text "a" and no abbr and ex pair was rendered as nothing.
C19_WitnessEmpty ==
    /\ FirstGave(<<>>)
    /\ localName(elem.kids[1]) = "expan"
    /\ elem.kids[1].text = <<"a">>
    /\ elem.kids[1].kids # <<>>

---------------------------------------------------------------------------
\* More claims about the run over a batch, checked under Spec.

\* The app entries of the apparatus division of a document, in document order.
app_entries(root) == findallDeep(locate(root, Apparatus), "app")

\* The number of lines of a text: none for the empty text.
LineBreaks(t) == LET B(c) == c = "\n" IN Len(SelectSeq(t, B))
LineCount(t) == IF t = <<>> THEN 0 ELSE LineBreaks(t) + 1

\* The entry has a note, at any depth, with text.
HasNoteText(app) == findDeep(app, "note") # None /\ findDeep(app, "note").text # <<>>

\* "Line <loc>: <note>" for each of the entries that has a note with text.
RECURSIVE ApparatusLines(_)
ApparatusLines(apps) ==
    IF apps = <<>> THEN <<>>
    ELSE (IF HasNoteText(Head(apps))
          THEN << <<"L", "i", "n", "e", " ">>
                  \o (IF HasAttr(Head(apps), "loc") THEN Head(apps).attrib["loc"] ELSE <<>>)
                  \o <<":", " ">> \o strip(findDeep(Head(apps), "note").text) >>
          ELSE <<>>)
         \o ApparatusLines(Tail(apps))

C17_SetsOnlyGrow ==
    [][ /\ unique_types \subseteq unique_types'
        /\ unique_materials \subseteq unique_materials'
        /\ unique_categories \subseteq unique_categories'
        /\ (/\ pc = "upload"
            /\ idx < Len(uploaded_files)
            /\ parse_tei(uploaded_files[idx + 1]).root = None)
            => UNCHANGED <<unique_types, unique_materials, unique_categories>> ]_vars

\* A batch of a document, a file that is not well-formed and a second document
\* has been loaded: each set holds the terms of both documents.
C17_Witness ==
    /\ pc = "viz"
    /\ Len(uploaded_files) = 3
    /\ ~uploaded_files[2].wellformed
    /\ Len(parsed_files) = 2
    /\ Cardinality(unique_types) = 2
    /\ Cardinality(unique_materials) = 2
    /\ Cardinality(unique_categories) = 2

\* The document has no edition division of the ancient language.
NoAncientEdition(root) ==
    \A j \in 1..Len(edition_divs(root)) : ~IsAncient(edition_divs(root)[j])

\* The text is the rendering of an edition division of the ancient language
\* of a parsed file of that name.
AncientEditionOf(file_name, t) ==
    \E i \in 1..Len(parsed_files) :
        /\ parsed_files[i].name = file_name
        /\ \E j \in 1..Len(edition_divs(parsed_files[i].root)) :
              /\ IsAncient(edition_divs(parsed_files[i].root)[j])
              /\ format_leiden_text(edition_divs(parsed_files[i].root)[j]).text = t

\* The last of the edition divisions of the document.
LastEdition(root) == edition_divs(root)[Len(edition_divs(root))]

\* C20: the edition displayed for a document is the rendering of the last
\* edition division of its body whatever the language of that division, while
\* every "Greek Text" match of a search is the rendering of an edition division
\* whose xml:lang is "grc"; so a search in the field "Greek Text" lists no
\* document other than ones with such a division, whatever the term.
C20_DisplayAndSearchDiffer ==
    /\ \A i \in 1..Len(shown) :
          edition_divs(parsed_files[i].root) # <<>>
            => shown[i].leiden_text
                   = format_leiden_text(LastEdition(parsed_files[i].root)).text
    /\ \A j \in 1..Len(results) :
          \A k \in 1..Len(results[j].matches) :
              results[j].matches[k][1] = "Greek Text"
                => AncientEditionOf(results[j].file_name, results[j].matches[k][2])
    /\ (search # <<>> /\ search.field = "Greek Text")
        => \A j \in 1..Len(results) :
              \E i \in 1..Len(parsed_files) :
                  /\ parsed_files[i].name = results[j].file_name
                  /\ ~NoAncientEdition(parsed_files[i].root)

\* The only edition division of the only document is not of the ancient
\* language; its text is displayed and holds the term searched for in the
\* field "Greek Text", and the search has found nothing.
C20_Witness ==
    /\ pc = "analytics"
    /\ Len(parsed_files) = 1
    /\ Len(shown) = 1
    /\ Len(edition_divs(parsed_files[1].root)) = 1
    /\ NoAncientEdition(parsed_files[1].root)
    /\ shown[1].leiden_text = format_leiden_text(LastEdition(parsed_files[1].root)).text
    /\ search # <<>>
    /\ search.field = "Greek Text"
    /\ hit(shown[1].leiden_text, strip(lower(search.term)))
    /\ results = <<>>

\* The same, the edition division having no xml:lang at all.
C20_WitnessNoLanguage ==
    /\ C20_Witness
    /\ ~HasAttr(LastEdition(parsed_files[1].root), "xml:lang")

====
